---- MODULE Spec2Model ----
(***************************************************************************)
(* notebooks/sentiment-pipeline-sklearn-5.ipynb: a cross-validated grid    *)
(* search over a scikit-learn Pipeline, followed by one evaluation on the  *)
(* held-out test set.                                                      *)
(*                                                                         *)
(* The notebook is glue code.  Its own statements are the parameter grid   *)
(* (cell 3), GridSearchCV(sentiment_pipeline, parameters, verbose=1) with  *)
(* every other argument left at its default, the call                      *)
(* train_test_and_evaluate(grid, X_train, y_train, X_test, y_test), and    *)
(* print_best_params_dict.  The library calls are modelled by what         *)
(* scikit-learn documents for the arguments the notebook passes:           *)
(*   cv=None            -> 3 stratified folds, not shuffled                *)
(*   n_jobs=1           -> the (candidate, fold) fits run one after another*)
(*   error_score='raise'-> an exception in a fit leaves GridSearchCV.fit   *)
(*   refit=True         -> the best candidate is refitted on all of X, y   *)
(*   iid=True           -> a candidate's score is the number of correctly  *)
(*                         classified held-out items over all items        *)
(* train_test_and_evaluate lives in sklearn_helpers.py, which is not among *)
(* the source files; it is modelled from its call, its recorded output and *)
(* the written description of its report.                                  *)
(***************************************************************************)
EXTENDS Integers, Sequences, FiniteSets

VARIABLES
    pc,                \* position of the run
    param_grid,        \* the grid: one cardinality per axis, keys sorted
    candidate_params,  \* list(ParameterGrid(param_grid))
    out,               \* the (candidate, fold) fits done so far, in order
    cur_total,         \* correct held-out items of the candidate in progress
    mean_test_score,   \* per finished candidate: correct held-out items
    best_index_,       \* 0 until selected
    best_estimator_,   \* the refitted pipeline
    failed,            \* the candidates one of whose fits raised
    X_train,           \* the training documents, each a set of terms
    y_train,           \* their labels
    test_folds,        \* per training item, the fold that holds it out
    split_i,           \* the folds fitted so far
    held_out,          \* per fitted fold, the items it was scored on
    fit_X,             \* the items the last fold's fit was given
    vocabulary_,       \* the vocabulary the last fold's fit learned
    y_test,            \* the labels of the evaluation set
    y_pred_class,      \* the refitted pipeline's predictions for X_test
    confusion_matrix,  \* the report's matrix, with its __all__ margins
    null_accuracy      \* the report's baseline, <<numerator, denominator>>

searchVars == <<param_grid, candidate_params, out, cur_total, mean_test_score,
                best_index_, best_estimator_, failed>>
foldVars == <<X_train, y_train, test_folds, split_i, held_out, fit_X,
              vocabulary_>>
reportVars == <<y_test, y_pred_class, confusion_matrix, null_accuracy>>

vars == <<pc, searchVars, foldVars, reportVars>>

----------------------------------------------------------------------------
\* Bounds of the model.

MaxAxes == 2
MaxCandidates == 4
MaxCorrect == 1

\* GridSearchCV(cv=None): "Fitting 3 folds for each of 360 candidates".
n_splits == 3

----------------------------------------------------------------------------
\* The parameter grid.

RECURSIVE Prod(_)
Prod(s) == IF s = <<>> THEN 1 ELSE Head(s) * Prod(Tail(s))

\* The notebook's `parameters`, one cardinality per key, keys in sorted
\* order as ParameterGrid iterates them: classifier__C (np.logspace(-2,0,3)),
\* features__post_length__kw_args, features__vectorizer__max_df,
\* features__vectorizer__ngram_range, features__vectorizer__tokenizer,
\* genericize_mentions__kw_args.
parameters == <<3, 2, 2, 3, 5, 2>>

\* The grids a run is started with: every axis non-empty.
Grids ==
    { g \in UNION { [1..n -> 1..MaxCandidates] : n \in 1..MaxAxes } :
        Prod(g) <= MaxCandidates }

\* itertools.product(*values): the i-th point (from 0), last axis fastest.
ParamAtLastAxisOnly(grid, i) ==
    [j \in 1..Len(grid) |-> (i % grid[j]) + 1]

ParamAt(grid, i) ==
    [j \in 1..Len(grid) |->
        ((i \div Prod(SubSeq(grid, j + 1, Len(grid)))) % grid[j]) + 1]

ParameterGrid(grid) == [i \in 1..Prod(grid) |-> ParamAt(grid, i - 1)]

----------------------------------------------------------------------------
\* GridSearchCV.fit, as train_test_and_evaluate calls it.

NoEstimator == [params |-> <<>>, fit_on |-> {}]

\* What a run that never gets to the folds or to the report holds there.
NoFolds ==
    /\ X_train = <<>>
    /\ y_train = <<>>
    /\ test_folds = <<>>
    /\ split_i = 0
    /\ held_out = <<>>
    /\ fit_X = {}
    /\ vocabulary_ = {}

NoReport ==
    /\ y_test = <<>>
    /\ y_pred_class = <<>>
    /\ confusion_matrix = <<>>
    /\ null_accuracy = <<0, 0>>

Init ==
    /\ pc = "Idle"
    /\ param_grid \in Grids
    /\ candidate_params = <<>>
    /\ out = <<>>
    /\ cur_total = 0
    /\ mean_test_score = <<>>
    /\ best_index_ = 0
    /\ best_estimator_ = NoEstimator
    /\ failed = {}
    /\ NoFolds
    /\ NoReport

\* train_test_and_evaluate: pipeline.fit(X_train, y_train)
FitCalled ==
    /\ pc = "Idle"
    /\ pc' = "Expanding"
    /\ UNCHANGED <<param_grid, candidate_params, out, cur_total,
                   mean_test_score, best_index_, best_estimator_, failed,
                   foldVars, reportVars>>

\* candidate_params = list(ParameterGrid(self.param_grid))
Expand ==
    /\ pc = "Expanding"
    /\ candidate_params' = ParameterGrid(param_grid)
    /\ pc' = "Evaluating"
    /\ UNCHANGED <<param_grid, out, cur_total, mean_test_score, best_index_,
                   best_estimator_, failed, foldVars, reportVars>>

\* The next task of
\*   for parameters in candidate_params for train, test in cv_iter
NextTask ==
    LET t == Len(out)
    IN  <<(t \div n_splits) + 1, (t % n_splits) + 1>>

TasksLeftButLast == Len(out) < Len(candidate_params) * n_splits - 1

TasksLeft == Len(out) < Len(candidate_params) * n_splits

\* _fit_and_score returns: the fold's fit and score succeeded.
FitAndScore ==
    /\ pc = "Evaluating"
    /\ TasksLeft
    /\ \E s \in 0..MaxCorrect :
        /\ out' = Append(out, NextTask)
        /\ IF NextTask[2] = n_splits
             THEN /\ mean_test_score' = Append(mean_test_score, cur_total + s)
                  /\ cur_total' = 0
             ELSE /\ cur_total' = cur_total + s
                  /\ UNCHANGED mean_test_score
    /\ UNCHANGED <<pc, param_grid, candidate_params, best_index_,
                   best_estimator_, failed, foldVars, reportVars>>

\* error_score='raise' (the default; the notebook passes none): the
\* exception of the fold's fit propagates out of GridSearchCV.fit and out
\* of train_test_and_evaluate.
FitFailureScoredWorst ==
    /\ failed' = failed \cup {NextTask[1]}
    /\ out' = Append(out, NextTask)
    /\ IF NextTask[2] = n_splits
         THEN /\ mean_test_score' = Append(mean_test_score, cur_total)
              /\ cur_total' = 0
         ELSE UNCHANGED <<cur_total, mean_test_score>>
    /\ UNCHANGED pc

FitFailure ==
    /\ failed' = failed \cup {NextTask[1]}
    /\ pc' = "Raised"
    /\ UNCHANGED <<out, cur_total, mean_test_score>>

FitAndScoreRaises ==
    /\ pc = "Evaluating"
    /\ TasksLeft
    /\ FitFailure
    /\ UNCHANGED <<param_grid, candidate_params, best_index_, best_estimator_,
                   foldVars, reportVars>>

\* All tasks returned: the per-candidate means are in the results table.
Aggregate ==
    /\ pc = "Evaluating"
    /\ ~TasksLeft
    /\ pc' = "Selecting"
    /\ UNCHANGED <<param_grid, candidate_params, out, cur_total,
                   mean_test_score, best_index_, best_estimator_, failed,
                   foldVars, reportVars>>

Max(S) == CHOOSE m \in S : \A x \in S : x <= m

Range(f) == { f[i] : i \in DOMAIN f }

\* results["rank_test_score"] = rankdata(-means, method='min'): a candidate's
\* rank is one more than the number of candidates with a greater mean.
rank_test_score(means) ==
    [i \in DOMAIN means |->
        1 + Cardinality({ j \in DOMAIN means : means[j] > means[i] })]

Min(S) == CHOOSE m \in S : \A x \in S : m <= x

\* best_index_ = np.flatnonzero(results["rank_test_score"] == 1)[0]
BestIndexLastOfRankOne(means) ==
    Max({ i \in DOMAIN means : rank_test_score(means)[i] = 1 })

BestIndex(means) ==
    Min({ i \in DOMAIN means : rank_test_score(means)[i] = 1 })

Select ==
    /\ pc = "Selecting"
    /\ best_index_' = BestIndex(mean_test_score)
    /\ pc' = "Refitting"
    /\ UNCHANGED <<param_grid, candidate_params, out, cur_total,
                   mean_test_score, best_estimator_, failed, foldVars,
                   reportVars>>

\* The folds a fit sees, as blocks of the training set: fold f's fit is
\* given every block but f; the refit is given X, y whole.
FoldTrainBlocks(f) == (1..n_splits) \ {f}

RefitBlocksLastFold == FoldTrainBlocks(n_splits)

RefitBlocks == 1..n_splits

\* refit=True: best_estimator_ = clone(base).set_params(**best_params_)
\*                                          .fit(X, y)
Refit ==
    /\ pc = "Refitting"
    /\ best_estimator_' = [params |-> candidate_params[best_index_],
                           fit_on |-> RefitBlocks]
    /\ pc' = "Done"
    /\ UNCHANGED <<param_grid, candidate_params, out, cur_total,
                   mean_test_score, best_index_, failed, foldVars,
                   reportVars>>

\* train_test_and_evaluate, after fit returned: predict X_test, report.
PredictAndReport ==
    /\ pc = "Done"
    /\ pc' = "Reported"
    /\ UNCHANGED <<param_grid, candidate_params, out, cur_total,
                   mean_test_score, best_index_, best_estimator_, failed,
                   foldVars, reportVars>>

Next ==
    \/ FitCalled
    \/ Expand
    \/ FitAndScore
    \/ FitAndScoreRaises
    \/ Aggregate
    \/ Select
    \/ Refit
    \/ PredictAndReport

Spec == Init /\ [][Next]_vars

FairSpec == Spec /\ WF_vars(Next)

----------------------------------------------------------------------------
\* The folds of the search and the fit of one fold.
\* GridSearchCV(cv=None) on a classifier with multiclass y:
\* StratifiedKFold(3), no shuffle; cv_iter = list(cv.split(X, y)) is made
\* once per search and used for every candidate.

MaxTrain == 5

\* df.sentiment: the labels of the confusion matrix's rows.
Labels == {"negative", "neutral", "positive"}

\* df = fetch_the_data(): a row is a post's text, here the terms the
\* tokenizer leaves of it, and its sentiment.  The rows a corpus is made of:
Posts ==
    { [text |-> {"t1"}, sentiment |-> "negative"],
      [text |-> {"t2"}, sentiment |-> "negative"],
      [text |-> {"t2", "t3"}, sentiment |-> "negative"],
      [text |-> {"t1"}, sentiment |-> "neutral"],
      [text |-> {"t2"}, sentiment |-> "positive"],
      [text |-> {"t2", "t3"}, sentiment |-> "positive"] }

\* features__vectorizer__max_df: [0.25, 0.5], in percent.
max_df_values == {25, 50}

Count(y, c) == Cardinality({ i \in DOMAIN y : y[i] = c })

\* KFold._iter_test_indices over m items: the first m % n_splits folds get
\* m // n_splits + 1 items, the others m // n_splits; fold i is the next
\* fold_sizes[i] positions (from 0).
fold_size(m, i) == (m \div n_splits) + (IF i <= m % n_splits THEN 1 ELSE 0)

RECURSIVE fold_start(_, _)
fold_start(m, i) ==
    IF i = 1 THEN 0 ELSE fold_start(m, i - 1) + fold_size(m, i - 1)

KFoldTest(m, i) == fold_start(m, i) .. (fold_start(m, i) + fold_size(m, i) - 1)

\* The position (from 0) of item idx among the items of its class.
PosInClass(y, idx) == Cardinality({ j \in 1..(idx - 1) : y[j] = y[idx] })

\* StratifiedKFold._make_test_folds: ValueError when every class has fewer
\* members than n_splits.
TooFewPerClass(y) ==
    \A c \in Labels : Count(y, c) > 0 => n_splits > Count(y, c)

\* StratifiedKFold._make_test_folds: test_folds starts as zeros (the first
\* fold); each class is split by a KFold over max(count, n_splits)
\* positions, the positions past the class's size dropped, and the fold of
\* each split written to the class's items.
make_test_folds(y) ==
    [idx \in DOMAIN y |->
        LET m == Max({Count(y, y[idx]), n_splits})
            hits == { i \in 1..n_splits :
                        PosInClass(y, idx) \in KFoldTest(m, i) }
        IN  IF hits = {} THEN 1 ELSE Max(hits)]

\* _iter_test_masks: fold i's test mask is test_folds == i.
TestIndexUpTo(folds, i) == { idx \in DOMAIN folds : folds[idx] <= i }

TestIndex(folds, i) == { idx \in DOMAIN folds : folds[idx] = i }

\* split: train_index = indices[np.logical_not(test_index)]
TrainIndex(folds, i) == (DOMAIN folds) \ TestIndex(folds, i)

\* _fit_and_score: X_train, y_train = _safe_split(estimator, X, y, train);
\* estimator.fit(X_train, y_train)
FitIndexWholeX(folds, i) == DOMAIN folds

FitIndex(folds, i) == TrainIndex(folds, i)

\* CountVectorizer.fit_transform on the documents it is given: the terms
\* of those documents, less (_limit_features) the terms whose document
\* frequency exceeds max_df * n_doc.
DocFreq(X, docs, t) == Cardinality({ d \in docs : t \in X[d] })

Vocabulary(X, docs, max_df) ==
    { t \in UNION { X[d] : d \in docs } :
        100 * DocFreq(X, docs, t) <= max_df * Cardinality(docs) }

InitFolds ==
    /\ pc = "FoldsIdle"
    /\ \E n \in 1..MaxTrain : \E df \in [1..n -> Posts] :
        /\ X_train = [i \in 1..n |-> df[i].text]
        /\ y_train = [i \in 1..n |-> df[i].sentiment]
    /\ test_folds = <<>>
    /\ split_i = 0
    /\ held_out = <<>>
    /\ fit_X = {}
    /\ vocabulary_ = {}
    /\ param_grid = <<>>
    /\ candidate_params = <<>>
    /\ out = <<>>
    /\ cur_total = 0
    /\ mean_test_score = <<>>
    /\ best_index_ = 0
    /\ best_estimator_ = NoEstimator
    /\ failed = {}
    /\ NoReport

\* cv_iter = list(cv.split(X, y, groups))
Split ==
    /\ pc = "FoldsIdle"
    /\ ~TooFewPerClass(y_train)
    /\ test_folds' = make_test_folds(y_train)
    /\ pc' = "Folding"
    /\ UNCHANGED <<X_train, y_train, split_i, held_out, fit_X, vocabulary_,
                   searchVars, reportVars>>

SplitRaises ==
    /\ pc = "FoldsIdle"
    /\ TooFewPerClass(y_train)
    /\ pc' = "Raised"
    /\ UNCHANGED <<foldVars, searchVars, reportVars>>

\* classifier = LogisticRegression(): its solver raises ValueError when the
\* labels it is given are all of one class.
OneClass(y, docs) == Cardinality({ y[d] : d \in docs }) < 2

\* _fit_and_score for the next fold, under one of the grid's max_df values.
FoldFit ==
    /\ pc = "Folding"
    /\ split_i < n_splits
    /\ \E max_df \in max_df_values :
        LET i == split_i + 1
            docs == FitIndex(test_folds, i)
            vocab == Vocabulary(X_train, docs, max_df)
        IN  /\ vocab # {}
            /\ ~OneClass(y_train, docs)
            /\ fit_X' = docs
            /\ vocabulary_' = vocab
            /\ held_out' = Append(held_out, TestIndex(test_folds, i))
            /\ split_i' = i
    /\ UNCHANGED <<pc, X_train, y_train, test_folds, searchVars, reportVars>>

\* The fold's fit raises.  CountVectorizer: ValueError("After pruning, no
\* terms remain ...") or "max_df corresponds to < documents than min_df",
\* no term having a document frequency within max_df * n_doc either way;
\* or the classifier is given one class only.
FoldFitRaises ==
    /\ pc = "Folding"
    /\ split_i < n_splits
    /\ LET docs == FitIndex(test_folds, split_i + 1)
       IN  \/ \E max_df \in max_df_values :
                Vocabulary(X_train, docs, max_df) = {}
           \/ OneClass(y_train, docs)
    /\ pc' = "Raised"
    /\ UNCHANGED <<foldVars, searchVars, reportVars>>

FoldsDone ==
    /\ pc = "Folding"
    /\ split_i = n_splits
    /\ pc' = "FoldsDone"
    /\ UNCHANGED <<foldVars, searchVars, reportVars>>

NextFolds ==
    \/ Split
    \/ SplitRaises
    \/ FoldFit
    \/ FoldFitRaises
    \/ FoldsDone

SpecFolds == InitFolds /\ [][NextFolds]_vars

----------------------------------------------------------------------------
\* The evaluation on the held-out set: train_test_and_evaluate after the
\* fit (sklearn_helpers.py), by its call and its recorded output.

MaxEval == 3

\* "got all pages - 899 posts in total"
n_samples == 899

\* train_test_split(X, y): test_size defaults to 0.25;
\* n_test = ceil(test_size * n), n_train = floor((1 - test_size) * n).
train_test_split(n) == <<(75 * n) \div 100, (25 * n + 99) \div 100>>

\* pd.value_counts(y)
value_counts(y) == [c \in Labels |-> Count(y, c)]

\* display_null_accuracy(y_test): max(value_counts) / len(y_test), the
\* share of the evaluation set that carries its most frequent label.
display_null_accuracy_least(y) ==
    <<Min({ value_counts(y)[c] : c \in { l \in Labels : Count(y, l) > 0 } }),
      Len(y)>>

display_null_accuracy(y) ==
    <<Max({ value_counts(y)[c] : c \in Labels }), Len(y)>>

\* ConfusionMatrix(list(y_test), list(y_pred_class)): rows are the true
\* labels, columns the predicted ones, "__all__" the margins.
Cells(actual, predicted) ==
    [a \in Labels, p \in Labels |->
        Cardinality({ i \in DOMAIN actual :
                        actual[i] = a /\ predicted[i] = p })]

WithMargins(cells) ==
    [cells |-> cells,
     row_all |-> [a \in Labels |-> cells[a, "negative"] + cells[a, "neutral"]
                                    + cells[a, "positive"]],
     col_all |-> [p \in Labels |-> cells["negative", p] + cells["neutral", p]
                                    + cells["positive", p]],
     all |-> cells["negative", "negative"] + cells["negative", "neutral"]
             + cells["negative", "positive"] + cells["neutral", "negative"]
             + cells["neutral", "neutral"] + cells["neutral", "positive"]
             + cells["positive", "negative"] + cells["positive", "neutral"]
             + cells["positive", "positive"]]

ConfusionMatrixSwapped(actual, predicted) ==
    WithMargins(Cells(predicted, actual))

ConfusionMatrix(actual, predicted) == WithMargins(Cells(actual, predicted))

\* The matrix the notebook's run printed, margins as printed.
NotebookCells ==
    [a \in Labels, p \in Labels |->
        CASE a = "negative" /\ p = "negative" -> 29
          [] a = "negative" /\ p = "neutral"  -> 15
          [] a = "negative" /\ p = "positive" -> 20
          [] a = "neutral"  /\ p = "negative" -> 8
          [] a = "neutral"  /\ p = "neutral"  -> 43
          [] a = "neutral"  /\ p = "positive" -> 19
          [] a = "positive" /\ p = "negative" -> 7
          [] a = "positive" /\ p = "neutral"  -> 12
          [] a = "positive" /\ p = "positive" -> 72]

NotebookMatrix ==
    [cells |-> NotebookCells,
     row_all |-> [a \in Labels |->
        CASE a = "negative" -> 64 [] a = "neutral" -> 70
          [] a = "positive" -> 91],
     col_all |-> [p \in Labels |->
        CASE p = "negative" -> 44 [] p = "neutral" -> 70
          [] p = "positive" -> 111],
     all |-> 225]

\* "null accuracy: 40.44%", in hundredths of a percent.
NotebookNullAccuracy == 4044

InitReport ==
    /\ pc = "Fitted"
    /\ \E n \in 1..MaxEval : y_test \in [1..n -> Labels]
    /\ y_pred_class = <<>>
    /\ confusion_matrix = <<>>
    /\ null_accuracy = <<0, 0>>
    /\ param_grid = <<>>
    /\ candidate_params = <<>>
    /\ out = <<>>
    /\ cur_total = 0
    /\ mean_test_score = <<>>
    /\ best_index_ = 0
    /\ best_estimator_ = NoEstimator
    /\ failed = {}
    /\ NoFolds

\* y_pred_class = pipeline.predict(X_test): one label per item.
Predict ==
    /\ pc = "Fitted"
    /\ y_pred_class' \in [DOMAIN y_test -> Labels]
    /\ pc' = "Predicted"
    /\ UNCHANGED <<y_test, confusion_matrix, null_accuracy, searchVars,
                   foldVars>>

\* confusion_matrix = ConfusionMatrix(...); display_null_accuracy(y_test);
\* the matrix and the report are printed.
Report ==
    /\ pc = "Predicted"
    /\ confusion_matrix' = ConfusionMatrix(y_test, y_pred_class)
    /\ null_accuracy' = display_null_accuracy(y_test)
    /\ pc' = "EvalReported"
    /\ UNCHANGED <<y_test, y_pred_class, searchVars, foldVars>>

NextReport ==
    \/ Predict
    \/ Report

SpecReport == InitReport /\ [][NextReport]_vars

----------------------------------------------------------------------------
\* Properties of the search (Spec, FairSpec).

PastEvaluating == pc \in {"Selecting", "Refitting", "Done", "Reported"}

\* The Cartesian product of a grid's axes, as a set.
ProductSet(grid) ==
    { t \in [1..Len(grid) -> 1..Max(Range(grid))] :
        \A j \in 1..Len(grid) : t[j] <= grid[j] }

NotebookCandidates == ParameterGrid(parameters)

NotebookGridExpanded ==
    /\ Len(NotebookCandidates) = 360
    /\ Range(NotebookCandidates) = ProductSet(parameters)
    /\ Cardinality(Range(NotebookCandidates)) = 360

\* C1: once the evaluation is over, the candidates are exactly the points
\* of the grid's Cartesian product, c1*...*cn of them and no point twice,
\* and each candidate was evaluated in one pass (one fit per fold, none
\* repeated); the notebook's grid expands to 360 candidates.
C1_EachCombinationOnce ==
    /\ PastEvaluating =>
        /\ Len(candidate_params) = Prod(param_grid)
        /\ Range(candidate_params) = ProductSet(param_grid)
        /\ Cardinality(Range(candidate_params)) = Len(candidate_params)
        /\ \A t \in DOMAIN out : out[t][1] \in DOMAIN candidate_params
        /\ \A i \in DOMAIN candidate_params : \A f \in 1..n_splits :
              Cardinality({ t \in DOMAIN out : out[t] = <<i, f>> }) = 1
    /\ NotebookGridExpanded

C1_Witness ==
    /\ pc = "Selecting"
    /\ param_grid = <<2, 2>>
    /\ Len(out) = 4 * n_splits

\* C2: the selected candidate has the maximal recorded mean score, no
\* candidate before it in the enumeration has that score, and it is the
\* configuration of the refitted pipeline (best_params_).
C2_BestIsFirstMaximum ==
    pc \in {"Refitting", "Done", "Reported"} =>
        /\ best_index_ \in DOMAIN mean_test_score
        /\ \A j \in DOMAIN mean_test_score :
              mean_test_score[j] <= mean_test_score[best_index_]
        /\ \A j \in 1..(best_index_ - 1) :
              mean_test_score[j] < mean_test_score[best_index_]
        /\ pc \in {"Done", "Reported"} =>
              best_estimator_.params = candidate_params[best_index_]

C2_Witness ==
    /\ pc = "Done"
    /\ \E j \in DOMAIN mean_test_score :
          /\ j > best_index_
          /\ mean_test_score[j] = mean_test_score[best_index_]
    /\ \E j \in DOMAIN mean_test_score :
          mean_test_score[j] < mean_test_score[best_index_]

\* C3 as stated: the run ends in the fatal error only when every one of
\* the N combinations failed.
C3_Original == pc = "Raised" => failed = DOMAIN candidate_params

\* C3, amended: a fit that fails ends the run at once.  The failing
\* combination gets no recorded score, the fits after it are not run, no
\* best configuration is selected and nothing is refitted; the run is past
\* Evaluating only if no fit failed.
C3_FitFailureAborts ==
    /\ failed # {} =>
        /\ pc = "Raised"
        /\ TasksLeft
        /\ failed = {NextTask[1]}
        /\ Len(mean_test_score) = NextTask[1] - 1
        /\ best_index_ = 0
        /\ best_estimator_ = NoEstimator
    /\ pc = "Raised" => failed # {}
    /\ PastEvaluating => failed = {}

C3_Witness ==
    /\ pc = "Raised"
    /\ Len(candidate_params) = 4
    /\ failed = {2}
    /\ Len(mean_test_score) = 1

\* C9: a candidate's mean is recorded after exactly n_splits fits of its
\* own, so a search that gets to Selecting has done N * n_splits fits;
\* 360 * 3 = 1080 for the notebook's grid.
C9_FitsPerSearch ==
    /\ pc = "Evaluating" =>
        /\ Len(mean_test_score) = Len(out) \div n_splits
        /\ \A i \in DOMAIN mean_test_score :
              { out[t][2] : t \in (i - 1) * n_splits + 1 .. i * n_splits }
                 = 1..n_splits
    /\ PastEvaluating => Len(out) = Prod(param_grid) * n_splits
    /\ Len(NotebookCandidates) * n_splits = 1080

C9_Witness ==
    /\ pc = "Selecting"
    /\ Prod(param_grid) = 3
    /\ Len(out) = 9

Transitions ==
    { <<"Idle", "Expanding">>, <<"Expanding", "Evaluating">>,
      <<"Evaluating", "Selecting">>, <<"Selecting", "Refitting">>,
      <<"Refitting", "Done">>, <<"Done", "Reported">>,
      <<"Evaluating", "Raised">> }

----------------------------------------------------------------------------
\* Properties of the folds (SpecFolds).

\* C4: the held-out portions of the n_splits folds partition the training
\* set: every item is held out by exactly one fold.
C4_FoldsPartition ==
    /\ pc \in {"Folding", "FoldsDone"} =>
        \A idx \in DOMAIN y_train :
            Cardinality({ i \in 1..n_splits :
                            idx \in TestIndex(test_folds, i) }) = 1
    /\ \A i \in DOMAIN held_out : \A j \in DOMAIN held_out :
          i # j => held_out[i] \cap held_out[j] = {}
    /\ pc = "FoldsDone" =>
        /\ Len(held_out) = n_splits
        /\ UNION Range(held_out) = DOMAIN y_train

C4_Witness ==
    /\ pc = "FoldsDone"
    /\ Len(y_train) = 5
    /\ Cardinality(Range(y_train)) = 2
    /\ \A i \in 1..n_splits : held_out[i] # {}

\* The terms that occur in fold i's held-out items and in no other item.
OnlyHeldOutTerms(i) ==
    (UNION { X_train[d] : d \in TestIndex(test_folds, i) })
        \ (UNION { X_train[d] : d \in TrainIndex(test_folds, i) })

\* C6: a fold's fit is given none of the fold's held-out items, and the
\* vocabulary it learns holds only terms of the items it was given, so no
\* term that occurs only in held-out items.
C6_NoLeakage ==
    (pc \in {"Folding", "FoldsDone"} /\ split_i >= 1) =>
        /\ held_out[split_i] =
              { d \in DOMAIN y_train : test_folds[d] = split_i }
        /\ fit_X \cap held_out[split_i] = {}
        /\ vocabulary_ \cap OnlyHeldOutTerms(split_i) = {}
        /\ vocabulary_ \subseteq
              UNION { X_train[d] : d \in (DOMAIN X_train) \ held_out[split_i] }

C6_Witness ==
    /\ pc = "Folding"
    /\ split_i >= 1
    /\ OnlyHeldOutTerms(split_i) # {}
    /\ vocabulary_ # {}

----------------------------------------------------------------------------
\* Properties of the report (SpecReport).

MajorityClasses(y) ==
    { c \in Labels : \A d \in Labels : Count(y, d) <= Count(y, c) }

\* An evaluation set with class sizes 30, 50, 20.
ExampleEval ==
    [i \in 1..100 |-> IF i <= 30 THEN "negative"
                      ELSE IF i <= 80 THEN "neutral" ELSE "positive"]

\* The notebook's evaluation set by its true labels: 64, 70, 91.
NotebookEval ==
    [i \in 1..225 |-> IF i <= 64 THEN "negative"
                      ELSE IF i <= 134 THEN "neutral" ELSE "positive"]

\* '{:.2%}'.format(num / den), in hundredths of a percent.
Percent2(r) == (r[1] * 10000 + (r[2] \div 2)) \div r[2]

C8_ConfusionMargins ==
    /\ pc = "EvalReported" =>
        /\ \A c \in Labels :
              /\ confusion_matrix.row_all[c] = Count(y_test, c)
              /\ confusion_matrix.col_all[c] = Count(y_pred_class, c)
        /\ confusion_matrix.all = Len(y_test)
    /\ NotebookMatrix = WithMargins(NotebookCells)
    /\ NotebookMatrix.all = train_test_split(n_samples)[2]

C8_Witness ==
    /\ pc = "EvalReported"
    /\ Len(y_test) = 3
    /\ \E c \in Labels : Count(y_test, c) # Count(y_pred_class, c)

====
